---- MODULE Spec2Model ----
(***************************************************************************)
(* Model of the fetch / cache / compute pipeline of the kelly backend:     *)
(*   fetch_volatility_nasdaq.py   (provider "nasdaq", one request/symbol)  *)
(*   fetch_volatility.py          (provider "yf", one grouped request)     *)
(*   add_stock.py                 (add one symbol to stock_settings.json)  *)
(*   update_stock_data_nasdaq.py  (bulk refresh of stock_settings.json)    *)
(*                                                                         *)
(* Floats are fixed-point: a number is <<"num", h>> with h in hundredths   *)
(* of a percent (the code rounds to 2 places), NaN is <<"nan">>, Python's  *)
(* None is <<"null">>.  Prices are powers of two, so a daily log return is *)
(* an integer multiple of ln 2.  Time is in hours.                         *)
(***************************************************************************)
EXTENDS Integers, Sequences, FiniteSets, TLC

VARIABLES now, cache, settings, last, born, running

vars == <<now, cache, settings, last, born, running>>

----------------------------------------------------------------------------
(* Bounds *)

MaxTime == 24
TickStep == 12
MaxRows == 3

----------------------------------------------------------------------------
(* Values *)

Null == <<"null">>
NaN == <<"nan">>
Raise == <<"raise">>
Num(h) == <<"num", h>>

IsNum(v) == Len(v) = 2

Symbols == {"A", "B"}
RawSymbols == {"a", "A", "B"}

EmptyMap == [s \in {} |-> Null]

Put(m, k, v) == [x \in (DOMAIN m) \cup {k} |-> IF x = k THEN v ELSE m[x]]

Range(q) == {q[i] : i \in 1..Len(q)}

Restrict(m, q) == [s \in Range(q) |-> m[s]]

Upper_asis(s) == s

\* str.upper() on the symbols of the model
Upper(s) == IF s = "a" THEN "A" ELSE IF s = "b" THEN "B" ELSE s

----------------------------------------------------------------------------
(* Price tables *)

Row(d, p) == [date |-> d, close |-> p]

\* the canonical (date-ascending) series the providers can deliver
OneRow == <<Row(0, 1)>>
Regular == <<Row(0, 1), Row(73, 2), Row(365, 2)>>
Series == {OneRow, Regular}

\* every date-ascending table of at most MaxRows rows: dates are days since
\* the first row, several rows may carry the same date
Dates == {0, 73, 365}
Prices == {1, 2}

PriceTables ==
    UNION {{t \in [1..n -> {Row(d, p) : d \in Dates, p \in Prices}] :
               /\ n > 0 => t[1].date = 0
               /\ \A i \in 1..(n - 1) : t[i].date <= t[i + 1].date} : n \in 0..MaxRows}

RECURSIVE Reverse(_)
Reverse(q) == IF q = <<>> THEN <<>> ELSE Append(Reverse(Tail(q)), Head(q))

RECURSIVE InsertByDate(_, _)
InsertByDate(r, q) ==
    IF q = <<>> THEN <<r>>
    ELSE IF r.date < Head(q).date THEN <<r>> \o q
    ELSE <<Head(q)>> \o InsertByDate(r, Tail(q))

RECURSIVE SortIndex(_)
SortIndex(q) ==
    IF q = <<>> THEN <<>> ELSE InsertByDate(Head(q), SortIndex(Tail(q)))

----------------------------------------------------------------------------
(* Statistics Engine *)

RECURSIVE Log2(_)
Log2(p) == IF p <= 1 THEN 0 ELSE 1 + Log2(p \div 2)

RECURSIVE Pow(_, _)
Pow(b, e) == IF e = 0 THEN 1 ELSE b * Pow(b, e - 1)

RECURSIVE SumTo(_, _)
SumTo(f, n) == IF n = 0 THEN 0 ELSE f[n] + SumTo(f, n - 1)

\* integer square root (Newton's iteration from above)
RECURSIVE IsqrtFrom(_, _)
IsqrtFrom(x, r) ==
    LET nxt == (r + x \div r) \div 2
    IN  IF nxt >= r THEN r ELSE IsqrtFrom(x, nxt)

Isqrt(x) == IF x = 0 THEN 0 ELSE IsqrtFrom(x, x)

\* round-half-away division of integers, d > 0
RoundDiv(n, d) ==
    IF n >= 0 THEN (2 * n + d) \div (2 * d) ELSE 0 - ((2 * (0 - n) + d) \div (2 * d))

\* sqrt(252) * ln(2) * 100, in hundredths of a percent
VolUnit == 110034

\* daily log returns in units of ln 2: np.log(x / x.shift(1)).dropna()
DailyReturns(t) ==
    [i \in 1..(IF Len(t) = 0 THEN 0 ELSE Len(t) - 1) |->
        Log2(t[i + 1].close) - Log2(t[i].close)]

calculate_annualized_volatility(t) ==
    LET r == DailyReturns(t)
        m == Len(r)
        sq == [i \in 1..m |-> r[i] * r[i]]
        \* sample variance (ddof = 1) = n / d
        n == m * SumTo(sq, m) - SumTo(r, m) * SumTo(r, m)
        d == m * (m - 1)
    IN  IF m < 2 THEN NaN
        ELSE Num((VolUnit * Isqrt(n * d * 10000)) \div (d * 100))

\* fetch_volatility_nasdaq.py: guards days == 0
calculate_expected_return(t) ==
    IF Len(t) = 0 THEN Raise
    ELSE LET first_price == t[1].close
             last_price == t[Len(t)].close
             days == t[Len(t)].date - t[1].date
             k == 365 \div days
         IN  IF days = 0 THEN Num(0)
             ELSE Num(RoundDiv(10000 * (Pow(last_price, k) - Pow(first_price, k)),
                               Pow(first_price, k)))

\* fetch_volatility.py: no guard, 365 / 0 raises ZeroDivisionError
calculate_expected_return_yf(t) ==
    IF Len(t) = 0 THEN Raise
    ELSE LET first_price == t[1].close
             last_price == t[Len(t)].close
             days == t[Len(t)].date - t[1].date
             k == 365 \div days
         IN  IF days = 0 THEN Raise
             ELSE Num(RoundDiv(10000 * (Pow(last_price, k) - Pow(first_price, k)),
                               Pow(first_price, k)))

NullStats == [volatility |-> Null, expectedReturn |-> Null]

SymbolStats_partial(prov, t) ==
    LET v == calculate_annualized_volatility(t)
        e == IF prov = "nasdaq" THEN calculate_expected_return(t)
             ELSE calculate_expected_return_yf(t)
    IN  [volatility |-> IF v = Raise THEN Null ELSE v,
         expectedReturn |-> IF e = Raise THEN Null ELSE e]

\* the try block of the per-symbol loop
SymbolStats(prov, t) ==
    LET v == calculate_annualized_volatility(t)
        e == IF prov = "nasdaq" THEN calculate_expected_return(t)
             ELSE calculate_expected_return_yf(t)
    IN  IF v = Raise \/ e = Raise THEN NullStats
        ELSE [volatility |-> v, expectedReturn |-> e]

----------------------------------------------------------------------------
(* Provider Adapters *)

Providers == {"nasdaq", "yf"}

\* the period token each entry point of the repository passes to its provider
PeriodsOf(prov) == IF prov = "nasdaq" THEN {"y5"} ELSE {"5y"}

\* period tokens a caller can pass: the defaults of the two modules and one
\* more each
Periods(prov) == IF prov = "nasdaq" THEN {"y5", "y1"} ELSE {"5y", "1y"}

cache_file_shared(prov, period) == <<prov, CHOOSE p \in PeriodsOf(prov) : TRUE>>

\* the path of the cache file: cache/nasdaq_volatility_cache_<period>.json
\* or cache/volatility_cache_<period>.json
cache_file(prov, period) == <<prov, period>>

\* the cache files of a provider module: one per period
KeysOf(prov) == {cache_file(prov, period) : period \in PeriodsOf(prov)}

AllCacheKeys ==
    UNION {{cache_file(prov, period) : period \in Periods(prov)} : prov \in Providers}

CacheKeys == KeysOf("nasdaq") \cup KeysOf("yf")

\* what NASDAQ answers for one symbol; rows are in the provider's raw
\* (newest first) order
NasdaqResponses ==
    {[kind |-> k, rows |-> <<>>] : k \in {"neterr", "status", "unparsable"}}
    \cup {[kind |-> "csv", rows |-> Reverse(s)] : s \in Series}

NoData == [ok |-> FALSE, table |-> <<>>]

\* returns None (NoData) or the processed, date-sorted frame
fetch_nasdaq_historical_data(resp) ==
    IF resp.kind # "csv" THEN NoData
    ELSE IF resp.rows = <<>> THEN NoData
    ELSE [ok |-> TRUE, table |-> SortIndex(resp.rows)]

\* the per-symbol loop of fetch_volatility_nasdaq.fetch_historical_data;
\* acc = [dict, calls]
RECURSIVE fetch_historical_data(_, _, _)
fetch_historical_data(symbols, resp, acc) ==
    IF symbols = <<>> THEN acc
    ELSE LET symbol == Head(symbols)
             data == fetch_nasdaq_historical_data(resp[symbol])
         IN  fetch_historical_data(Tail(symbols), resp,
                 [dict |-> IF data.ok THEN Put(acc.dict, symbol, data.table)
                           ELSE acc.dict,
                  calls |-> Append(acc.calls, symbol)])

\* what yfinance answers for the whole batch: an exception, or one frame
\* with a column group per symbol it could download
YfColumns == {[present |-> FALSE, table |-> <<>>]}
             \cup {[present |-> TRUE, table |-> s] : s \in Series}

\* fetch_volatility.fetch_historical_data: None (NoData) on an exception
fetch_historical_data_yf(resp) ==
    IF resp.kind = "error" THEN NoData ELSE [ok |-> TRUE, table |-> resp.cols]

----------------------------------------------------------------------------
(* Freshness Cache *)

TTL == 24

NoFile == [kind |-> "none", mtime |-> 0, data |-> EmptyMap]

WriteOutcomes == {"ok", "openfail", "truncated"}

\* open(cache_file, 'w') + json.dump: open may fail (file untouched), the
\* dump may fail after the truncation (unparsable file), or both succeed
WriteCache_drop(file, data, t, wr) ==
    IF wr = "ok" THEN [kind |-> "json", mtime |-> t, data |-> EmptyMap]
    ELSE IF wr = "truncated" THEN [kind |-> "corrupt", mtime |-> t, data |-> EmptyMap]
    ELSE file

WriteCache(file, data, t, wr) ==
    IF wr = "ok" THEN [kind |-> "json", mtime |-> t, data |-> data]
    ELSE IF wr = "truncated" THEN [kind |-> "corrupt", mtime |-> t, data |-> EmptyMap]
    ELSE file

CacheExists(file) == file.kind # "none"

CacheFresh_stale(file, t) == CacheExists(file) /\ t - file.mtime <= TTL

CacheFresh(file, t) == CacheExists(file) /\ t - file.mtime < TTL

MissingSymbols(symbols, data) == {s \in Range(symbols) : s \notin DOMAIN data}

CacheHit_never(symbols, file, t) == FALSE

\* the cache answers: the file exists, is fresh, loads, and misses no symbol
CacheHit(symbols, file, t) ==
    /\ CacheExists(file)
    /\ CacheFresh(file, t)
    /\ file.kind = "json"
    /\ MissingSymbols(symbols, file.data) = {}

RECURSIVE ProcessNasdaq_skip(_, _, _)
ProcessNasdaq_skip(symbols, data_dict, acc) ==
    IF symbols = <<>> THEN acc
    ELSE LET symbol == Head(symbols)
             st == IF symbol \notin DOMAIN data_dict THEN NullStats
                   ELSE SymbolStats("nasdaq", data_dict[symbol])
         IN  ProcessNasdaq_skip(Tail(symbols), data_dict,
                 [results |-> IF st = NullStats THEN acc.results
                              ELSE Put(acc.results, symbol, st),
                  cache_data |-> IF st = NullStats THEN acc.cache_data
                                 ELSE Put(acc.cache_data, symbol, st)])

RECURSIVE ProcessNasdaq_cachenull(_, _, _)
ProcessNasdaq_cachenull(symbols, data_dict, acc) ==
    IF symbols = <<>> THEN acc
    ELSE LET symbol == Head(symbols)
             st == IF symbol \notin DOMAIN data_dict THEN NullStats
                   ELSE SymbolStats("nasdaq", data_dict[symbol])
         IN  ProcessNasdaq_cachenull(Tail(symbols), data_dict,
                 [results |-> Put(acc.results, symbol, st),
                  cache_data |-> Put(acc.cache_data, symbol, st)])

\* the per-symbol loop of get_stock_volatility_and_returns (nasdaq);
\* acc = [results, cache_data]
RECURSIVE ProcessNasdaq(_, _, _)
ProcessNasdaq(symbols, data_dict, acc) ==
    IF symbols = <<>> THEN acc
    ELSE LET symbol == Head(symbols)
             st == IF symbol \notin DOMAIN data_dict THEN NullStats
                   ELSE SymbolStats("nasdaq", data_dict[symbol])
         IN  ProcessNasdaq(Tail(symbols), data_dict,
                 [results |-> Put(acc.results, symbol, st),
                  cache_data |-> IF st = NullStats THEN acc.cache_data
                                 ELSE Put(acc.cache_data, symbol, st)])

\* the per-symbol loop of get_stock_volatility_and_returns (yf): with one
\* requested symbol the frame is not grouped and is used whole, otherwise
\* data[symbol] raises KeyError for a symbol the frame has no columns for
RECURSIVE ProcessYf(_, _, _, _)
ProcessYf(rest, symbols, cols, acc) ==
    IF rest = <<>> THEN acc
    ELSE LET symbol == Head(rest)
             symbol_data == IF Len(symbols) = 1 THEN cols[symbols[1]]
                            ELSE cols[symbol]
             st == IF ~symbol_data.present THEN NullStats
                   ELSE SymbolStats("yf", symbol_data.table)
         IN  ProcessYf(Tail(rest), symbols, cols,
                 [results |-> Put(acc.results, symbol, st),
                  cache_data |-> IF st = NullStats THEN acc.cache_data
                                 ELSE Put(acc.cache_data, symbol, st)])

CacheBase_replace(file, t) == EmptyMap

CacheBase_keepstale(file, t) == file.data

\* the mapping the new results are merged into
CacheBase(file, t) ==
    IF ~(CacheExists(file) /\ CacheFresh(file, t)) THEN EmptyMap ELSE file.data

NoCall == [called |-> FALSE, prov |-> "", period |-> "", symbols |-> <<>>, at |-> 0,
           provider |-> FALSE, calls |-> <<>>, fetched |-> {}, data |-> EmptyMap,
           nothing |-> FALSE, raised |-> FALSE, results |-> EmptyMap, wrote |-> "none"]

NothingFetched_touch(call, file, t) ==
    [call |-> call, file |-> [kind |-> "json", mtime |-> t, data |-> CacheBase(file, t)]]

\* the provider returned nothing for the whole batch: "returning empty
\* results", before the cache file is opened for writing
NothingFetched(call, file, t) == [call |-> call, file |-> file]

\* get_stock_volatility_and_returns(symbols, period) of provider prov, run
\* on cache file `file` at time t; resp is what the provider answers and wr
\* what the cache write does.  Returns the call record and the file after.
get_stock_volatility_and_returns(prov, symbols, period, file, t, resp, wr) ==
    LET cache_exists == CacheExists(file)
        cache_fresh == CacheFresh(file, t)
        loaded == cache_exists /\ cache_fresh /\ file.kind = "json"
        base == [NoCall EXCEPT !.called = TRUE, !.prov = prov, !.at = t,
                               !.period = period, !.symbols = symbols]
        fetch == IF prov = "nasdaq"
                 THEN fetch_historical_data(symbols, resp, [dict |-> EmptyMap, calls |-> <<>>])
                 ELSE [dict |-> EmptyMap, calls |-> symbols]
        yfdata == fetch_historical_data_yf(resp)
        nothing == IF prov = "nasdaq" THEN DOMAIN fetch.dict = {} ELSE ~yfdata.ok
        fetched == IF prov = "nasdaq" THEN DOMAIN fetch.dict
                   ELSE IF yfdata.ok
                        THEN {s \in Range(symbols) : yfdata.table[s].present}
                        ELSE {}
        tables == IF prov = "nasdaq" THEN fetch.dict
                  ELSE [s \in fetched |-> yfdata.table[s].table]
        called == [base EXCEPT !.provider = TRUE, !.calls = fetch.calls,
                               !.fetched = fetched, !.data = tables,
                               !.nothing = nothing]
        start == [results |-> EmptyMap, cache_data |-> CacheBase(file, t)]
        done == IF prov = "nasdaq" THEN ProcessNasdaq(symbols, fetch.dict, start)
                ELSE ProcessYf(symbols, symbols, yfdata.table, start)
    IN  IF CacheHit(symbols, file, t)
        THEN [call |-> [base EXCEPT !.results = Restrict(file.data, symbols)],
              file |-> file]
        ELSE IF nothing
        THEN NothingFetched(called, file, t)
        ELSE IF cache_exists /\ cache_fresh /\ ~loaded
        \* cache_data was never bound: UnboundLocalError leaves the function
        THEN [call |-> [called EXCEPT !.raised = TRUE], file |-> file]
        ELSE [call |-> [called EXCEPT !.results = done.results, !.wrote = wr],
              file |-> WriteCache(file, done.cache_data, t, wr)]

\* the provider answers a request for `symbols` can receive
ProviderResponses(prov, symbols) ==
    IF prov = "nasdaq" THEN [Range(symbols) -> NasdaqResponses]
    ELSE {[kind |-> "error", cols |-> EmptyMap]}
         \cup {[kind |-> "frame", cols |-> c] : c \in [Range(symbols) -> YfColumns]}

\* the same, the tables drawn from PriceTables
SeriesResponses(prov, symbols) ==
    IF prov = "nasdaq"
    THEN [Range(symbols) ->
             {[kind |-> "status", rows |-> <<>>]}
             \cup {[kind |-> "csv", rows |-> Reverse(t)] : t \in PriceTables}]
    ELSE {[kind |-> "error", cols |-> EmptyMap]}
         \cup {[kind |-> "frame", cols |-> c] :
                   c \in [Range(symbols) ->
                             {[present |-> FALSE, table |-> <<>>]}
                             \cup {[present |-> TRUE, table |-> t] : t \in PriceTables}]}

----------------------------------------------------------------------------
(* Settings Synchronizer *)

InitEntry == [volatility |-> Num(3000), expectedReturn |-> Num(1000), note |-> "keep"]

InitDoc(keys) == [stocks |-> [s \in keys |-> InitEntry], app |-> "kelly"]

EmptyDoc == [stocks |-> EmptyMap, app |-> ""]

WriteSettings_merge(file, doc, wr) ==
    IF wr = "ok"
    THEN [kind |-> "json",
          doc |-> [doc EXCEPT !.stocks =
                      [s \in DOMAIN doc.stocks \cup DOMAIN file.doc.stocks |->
                          IF s \in DOMAIN doc.stocks THEN doc.stocks[s]
                          ELSE file.doc.stocks[s]]]]
    ELSE IF wr = "truncated" THEN [kind |-> "corrupt", doc |-> EmptyDoc]
    ELSE file

\* open(settings_path, 'w') + json.dump(settings, f, indent=2)
WriteSettings(file, doc, wr) ==
    IF wr = "ok" THEN [kind |-> "json", doc |-> doc]
    ELSE IF wr = "truncated" THEN [kind |-> "corrupt", doc |-> EmptyDoc]
    ELSE file

NonNull_always(data) == TRUE

NonNull(data) == data.volatility # Null /\ data.expectedReturn # Null

\* add_stock(symbol): returns [ret, call, settings, file]
add_stock(raw, sfile, cfile, t, resp, wr, swr) ==
    LET symbol == Upper(raw)
        settings_doc == sfile.doc
        got == get_stock_volatility_and_returns("yf", <<symbol>>, "5y", cfile, t, resp, wr)
        stock_data == got.call.results
        added == [settings_doc EXCEPT !.stocks =
                     Put(@, symbol, [volatility |-> stock_data[symbol].volatility,
                                     expectedReturn |-> stock_data[symbol].expectedReturn])]
    IN  IF sfile.kind # "json"
        THEN [ret |-> "False", call |-> NoCall, swrote |-> "none",
              settings |-> sfile, file |-> cfile]
        ELSE IF symbol \in DOMAIN settings_doc.stocks
        THEN [ret |-> "False", call |-> NoCall, swrote |-> "none",
              settings |-> sfile, file |-> cfile]
        ELSE IF got.call.raised
        THEN [ret |-> "raised", call |-> got.call, swrote |-> "none",
              settings |-> sfile, file |-> got.file]
        ELSE IF symbol \in DOMAIN stock_data /\ NonNull(stock_data[symbol])
        THEN [ret |-> IF swr = "ok" THEN "True" ELSE "False",
              call |-> got.call, swrote |-> swr,
              settings |-> WriteSettings(sfile, added, swr), file |-> got.file]
        ELSE [ret |-> "False", call |-> got.call, swrote |-> "none",
              settings |-> sfile, file |-> got.file]

MergeStocks_replace(stocks, stock_data) ==
    [s \in DOMAIN stocks |->
        IF s \in DOMAIN stock_data /\ NonNull(stock_data[s])
        THEN [volatility |-> stock_data[s].volatility,
              expectedReturn |-> stock_data[s].expectedReturn]
        ELSE stocks[s]]

\* the merge loop of update_stock_settings
MergeStocks(stocks, stock_data) ==
    [s \in DOMAIN stocks |->
        IF s \in DOMAIN stock_data /\ NonNull(stock_data[s])
        THEN [stocks[s] EXCEPT !.volatility = stock_data[s].volatility,
                               !.expectedReturn = stock_data[s].expectedReturn]
        ELSE stocks[s]]

\* update_stock_settings(); symbols is list(settings['stocks'].keys())
update_stock_settings(symbols, sfile, cfile, t, resp, wr, swr) ==
    LET settings_doc == sfile.doc
        got == get_stock_volatility_and_returns("nasdaq", symbols, "y5", cfile, t, resp, wr)
        stock_data == got.call.results
        merged == [settings_doc EXCEPT !.stocks = MergeStocks(@, stock_data)]
    IN  IF sfile.kind # "json"
        THEN [ret |-> "False", call |-> NoCall, swrote |-> "none",
              settings |-> sfile, file |-> cfile]
        ELSE IF got.call.raised
        THEN [ret |-> "raised", call |-> got.call, swrote |-> "none",
              settings |-> sfile, file |-> got.file]
        ELSE [ret |-> IF swr = "ok" THEN "True" ELSE "False",
              call |-> got.call, swrote |-> swr,
              settings |-> WriteSettings(sfile, merged, swr), file |-> got.file]

----------------------------------------------------------------------------
(* State machine *)

\* born[k][s] is the time the entry of s in cache file k was computed from
\* provider data; the file itself carries no such time.  BornAfter is born[k]
\* after a call that left the file as newfile.
BornAfter(b, call, newfile, t) ==
    IF call.wrote \in {"none", "openfail"} THEN b
    ELSE [s \in DOMAIN newfile.data |->
             IF s \in DOMAIN call.results /\ call.results[s] # NullStats THEN t
             ELSE IF s \in DOMAIN b THEN b[s] ELSE t]

\* the invocations of the tool that run concurrently, and where each is
Procs == {"p", "q"}

Idle == [pc |-> "idle", op |-> "", symbol |-> "", base |-> EmptyDoc, doc |-> EmptyDoc,
         ret |-> ""]

\* duplicate-free symbol lists
Requests == {<<>>} \cup {<<s>> : s \in Symbols}
            \cup {q \in {<<s, u>> : s \in Symbols, u \in Symbols} : q[1] # q[2]}

\* list(settings['stocks'].keys()): the keys in the document's order
SymbolOrder == <<"A", "B">>

KeyList(keys) == SelectSeq(SymbolOrder, LAMBDA s : s \in keys)

\* the documents the tool starts from
InitKeySets == {{"A"}, {"A", "B"}}

NoOp == [op |-> "init", arg |-> "", ret |-> "", call |-> NoCall, swrote |-> "none"]

Init ==
    /\ now = 0
    /\ cache = [k \in CacheKeys |-> NoFile]
    /\ \E keys \in InitKeySets : settings = [kind |-> "json", doc |-> InitDoc(keys)]
    /\ last = NoOp
    /\ born = [k \in CacheKeys |-> EmptyMap]
    /\ running = [p \in Procs |-> Idle]

\* the clock advances
Tick ==
    /\ now + TickStep <= MaxTime
    /\ now' = now + TickStep
    /\ UNCHANGED <<cache, settings, last, born, running>>

\* The environment of one call: what the provider answers and what the
\* writes do.  The provider answers only if it is asked and a write has an
\* outcome only if it is attempted, so an answer that is not consumed is
\* pinned to one value.
DefaultResponse(prov, symbols) == CHOOSE r \in ProviderResponses(prov, symbols) : TRUE

Consumed(call, resp, default, wr) ==
    /\ call.provider \/ resp = default
    /\ call.wrote # "none" \/ wr = "ok"

\* the answers the provider can give: tables of Series, or of PriceTables
Responses(tables, prov, symbols) ==
    IF tables = "all" THEN SeriesResponses(prov, symbols)
    ELSE ProviderResponses(prov, symbols)

\* a direct call of get_stock_volatility_and_returns of provider module prov
\* for one of `requests`, the provider answering with `tables`
Call(prov, requests, tables) ==
    \E symbols \in requests, period \in {p \in Periods(prov) : cache_file(prov, p) \in DOMAIN cache} :
      \E resp \in Responses(tables, prov, symbols), wr \in WriteOutcomes :
        \E got \in {get_stock_volatility_and_returns(
                       prov, symbols, period, cache[cache_file(prov, period)], now, resp, wr)} :
            /\ Consumed(got.call, resp, CHOOSE r \in Responses(tables, prov, symbols) : TRUE, wr)
            /\ cache' = [cache EXCEPT ![cache_file(prov, period)] = got.file]
            /\ born' = [born EXCEPT ![cache_file(prov, period)] =
                                        BornAfter(@, got.call, got.file, now)]
            /\ last' = [NoOp EXCEPT !.op = "get", !.call = got.call,
                                    !.ret = IF got.call.raised THEN "raised" ELSE "returned"]
            /\ UNCHANGED <<now, settings, running>>

GetStats(prov) == Call(prov, Requests, "some")

\* the same for one symbol, over every price table
GetSeries(prov) == Call(prov, {<<"A">>}, "all")

AddStock ==
    \E raw \in {r \in RawSymbols : cache_file("yf", "5y") \in DOMAIN cache} :
      \E resp \in ProviderResponses("yf", <<Upper(raw)>>), wr \in WriteOutcomes,
         swr \in WriteOutcomes :
        \E r \in {add_stock(raw, settings, cache[cache_file("yf", "5y")], now, resp, wr, swr)} :
            /\ Consumed(r.call, resp, DefaultResponse("yf", <<Upper(raw)>>), wr)
            /\ r.swrote # "none" \/ swr = "ok"
            /\ settings' = r.settings
            /\ cache' = [cache EXCEPT ![cache_file("yf", "5y")] = r.file]
            /\ born' = [born EXCEPT ![cache_file("yf", "5y")] = BornAfter(@, r.call, r.file, now)]
            /\ last' = [op |-> "add", arg |-> raw, ret |-> r.ret, call |-> r.call,
                        swrote |-> r.swrote]
            /\ UNCHANGED <<now, running>>

UpdateStockSettings ==
    \E symbols \in {q \in {KeyList(DOMAIN settings.doc.stocks)} :
                         cache_file("nasdaq", "y5") \in DOMAIN cache} :
      \E resp \in ProviderResponses("nasdaq", symbols), wr \in WriteOutcomes,
         swr \in WriteOutcomes :
        \E r \in {update_stock_settings(symbols, settings, cache[cache_file("nasdaq", "y5")],
                                        now, resp, wr, swr)} :
            /\ Consumed(r.call, resp, DefaultResponse("nasdaq", symbols), wr)
            /\ r.swrote # "none" \/ swr = "ok"
            /\ settings' = r.settings
            /\ cache' = [cache EXCEPT ![cache_file("nasdaq", "y5")] = r.file]
            /\ born' = [born EXCEPT ![cache_file("nasdaq", "y5")] = BornAfter(@, r.call, r.file, now)]
            /\ last' = [op |-> "update", arg |-> "", ret |-> r.ret, call |-> r.call,
                        swrote |-> r.swrote]
            /\ UNCHANGED <<now, running>>

GetStatsNasdaq == GetStats("nasdaq")

GetStatsYf == GetStats("yf")

\* the whole tool
Next == Tick \/ GetStatsNasdaq \/ GetStatsYf \/ AddStock \/ UpdateStockSettings

Spec == Init /\ [][Next]_vars

\* either provider module, called directly on its own cache directory; the
\* settings document plays no part
InitPipeline ==
    /\ now = 0
    /\ \E prov \in Providers :
          /\ cache = [k \in KeysOf(prov) |-> NoFile]
          /\ born = [k \in KeysOf(prov) |-> EmptyMap]
    /\ settings = [kind |-> "json", doc |-> InitDoc({"A"})]
    /\ last = NoOp
    /\ running = [p \in Procs |-> Idle]

NextPipeline == Tick \/ GetStatsNasdaq \/ GetStatsYf

SpecPipeline == InitPipeline /\ [][NextPipeline]_vars

\* the same for one symbol, over every period
GetPeriod(prov) == Call(prov, {<<"A">>}, "some")

GetPeriodNasdaq == GetPeriod("nasdaq")

GetPeriodYf == GetPeriod("yf")

\* both provider modules on one cache directory, every period
InitScoped ==
    /\ now = 0
    /\ cache = [k \in AllCacheKeys |-> NoFile]
    /\ born = [k \in AllCacheKeys |-> EmptyMap]
    /\ settings = [kind |-> "json", doc |-> InitDoc({"A"})]
    /\ last = NoOp
    /\ running = [p \in Procs |-> Idle]

NextScoped == GetPeriodNasdaq \/ GetPeriodYf

SpecScoped == InitScoped /\ [][NextScoped]_vars

GetSeriesNasdaq == GetSeries("nasdaq")

GetSeriesYf == GetSeries("yf")

\* the statistics of one symbol over every price table
NextStats == GetSeriesNasdaq \/ GetSeriesYf

SpecStats == InitPipeline /\ [][NextStats]_vars

\* Two invocations of the tool running at once.  An invocation loads the
\* settings document, calls get_stock_volatility_and_returns, and writes
\* the document back; nothing orders the steps of one against the other's.
Jobs == {[op |-> "update", raw |-> ""]} \cup {[op |-> "add", raw |-> r] : r \in RawSymbols}

Finished(r, ret) == [r EXCEPT !.pc = "done", !.ret = ret, !.base = EmptyDoc, !.doc = EmptyDoc]

\* json.load of the settings file, and add_stock's membership test
Load(p) ==
    /\ running[p].pc = "idle"
    /\ \E job \in Jobs :
          LET r == [Idle EXCEPT !.op = job.op, !.symbol = Upper(job.raw)]
          IN  running' = [running EXCEPT ![p] =
                  IF settings.kind # "json" THEN Finished(r, "False")
                  ELSE IF job.op = "add" /\ r.symbol \in DOMAIN settings.doc.stocks
                  THEN Finished(r, "False")
                  ELSE [r EXCEPT !.pc = "loaded", !.base = settings.doc,
                                 !.doc = settings.doc]]
    /\ UNCHANGED <<now, cache, settings, last, born>>

\* the invocation's state after its statistics call returned `call`
AfterFetch(r, call) ==
    IF call.raised THEN Finished(r, "raised")
    ELSE IF r.op = "add"
    THEN IF r.symbol \in DOMAIN call.results /\ NonNull(call.results[r.symbol])
         THEN [r EXCEPT !.pc = "ready",
                        !.doc = [r.base EXCEPT !.stocks =
                                    Put(@, r.symbol,
                                        [volatility |-> call.results[r.symbol].volatility,
                                         expectedReturn |-> call.results[r.symbol].expectedReturn])]]
         ELSE Finished(r, "False")
    ELSE [r EXCEPT !.pc = "ready",
                   !.doc = [r.base EXCEPT !.stocks = MergeStocks(@, call.results)]]

\* the call of get_stock_volatility_and_returns and the change of the
\* in-memory document
Fetch(p) ==
    /\ running[p].pc = "loaded"
    /\ LET r == running[p]
           prov == IF r.op = "add" THEN "yf" ELSE "nasdaq"
           period == IF r.op = "add" THEN "5y" ELSE "y5"
           symbols == IF r.op = "add" THEN <<r.symbol>> ELSE KeyList(DOMAIN r.base.stocks)
       IN  \E resp \in ProviderResponses(prov, symbols), wr \in WriteOutcomes :
             \E got \in {get_stock_volatility_and_returns(
                            prov, symbols, period, cache[cache_file(prov, period)],
                            now, resp, wr)} :
                 /\ Consumed(got.call, resp, DefaultResponse(prov, symbols), wr)
                 /\ cache' = [cache EXCEPT ![cache_file(prov, period)] = got.file]
                 /\ born' = [born EXCEPT ![cache_file(prov, period)] =
                                             BornAfter(@, got.call, got.file, now)]
                 /\ running' = [running EXCEPT ![p] = AfterFetch(r, got.call)]
    /\ UNCHANGED <<now, settings, last>>

\* open(settings_path, 'w') + json.dump of the in-memory document
Save(p) ==
    /\ running[p].pc = "ready"
    /\ \E swr \in WriteOutcomes :
          /\ settings' = WriteSettings(settings, running[p].doc, swr)
          /\ running' = [running EXCEPT ![p] =
                             Finished(@, IF swr = "ok" THEN "True" ELSE "False")]
    /\ UNCHANGED <<now, cache, last, born>>

NextConcurrent == \E p \in Procs : Load(p) \/ Fetch(p) \/ Save(p)

SpecConcurrent == Init /\ [][NextConcurrent]_vars

\* the two command-line entry points
NextAdd == Tick \/ AddStock

SpecAdd == Init /\ [][NextAdd]_vars

NextUpdate == Tick \/ UpdateStockSettings

SpecUpdate == Init /\ [][NextUpdate]_vars

\* either entry point, run on the cache directory of its provider module
InitTool ==
    /\ now = 0
    /\ \E prov \in Providers :
          /\ cache = [k \in KeysOf(prov) |-> NoFile]
          /\ born = [k \in KeysOf(prov) |-> EmptyMap]
    /\ \E keys \in InitKeySets : settings = [kind |-> "json", doc |-> InitDoc(keys)]
    /\ last = NoOp
    /\ running = [p \in Procs |-> Idle]

NextTool == Tick \/ AddStock \/ UpdateStockSettings

SpecTool == InitTool /\ [][NextTool]_vars

TypeOK ==
    /\ now \in 0..MaxTime
    /\ \A k \in DOMAIN cache : cache[k].kind \in {"none", "corrupt", "json"}
    /\ settings.kind \in {"json", "corrupt"}
    /\ DOMAIN born = DOMAIN cache
    /\ \A k \in DOMAIN cache : DOMAIN born[k] = DOMAIN cache[k].data
    /\ \A p \in Procs : running[p].pc \in {"idle", "loaded", "ready", "done"}

----------------------------------------------------------------------------
(* Claims *)

\* a step that is one call of get_stock_volatility_and_returns
GetStep == now' = now /\ last'.op = "get" /\ last'.call.called

KeyOf(c) == <<c.prov, c.period>>

\* the file exists, was modified less than 24 hours ago, and is a JSON
\* mapping that has every requested symbol as a key
Usable(symbols, file, t) ==
    /\ file.kind = "json"
    /\ t - file.mtime < TTL
    /\ \A i \in 1..Len(symbols) : symbols[i] \in DOMAIN file.data

\* C1: get_stock_volatility_and_returns answers from the cache, without
\* calling the provider and without rewriting the cache file, if and only if
\* the cache file of the period exists, is less than 24 hours old and has
\* every requested symbol as a key; the result is then exactly the requested
\* symbols with the cached values.  Otherwise the provider is called for the
\* whole requested batch.
C1_CacheHitIffUsable ==
    [][GetStep =>
        LET c == last'.call
            file == cache[KeyOf(c)]
            usable == Usable(c.symbols, file, now)
        IN  /\ (~c.provider /\ c.wrote = "none" /\ cache'[KeyOf(c)] = file) <=> usable
            /\ usable => /\ ~c.raised
                         /\ DOMAIN c.results = Range(c.symbols)
                         /\ \A s \in DOMAIN c.results : c.results[s] = file.data[s]
            /\ ~usable => c.provider /\ c.calls = c.symbols]_vars

\* a hit for two symbols on a file written earlier
C1_Witness ==
    /\ last.op = "get" /\ ~last.call.provider
    /\ Len(last.call.symbols) = 2
    /\ cache[KeyOf(last.call)].mtime < last.call.at
    /\ DOMAIN last.call.results = {"A", "B"}

\* the step is a call that repeats the call before it (same provider, period
\* and symbol list) less than 24 hours after it, and that earlier call
\* computed statistics and wrote the cache
RepeatStep ==
    /\ GetStep
    /\ last.op = "get" /\ last.call.provider /\ ~last.call.raised
    /\ last.call.wrote = "ok"
    /\ last'.call.prov = last.call.prov
    /\ last'.call.period = last.call.period
    /\ last'.call.symbols = last.call.symbols
    /\ now - last.call.at < TTL

\* C2 as stated: after a call that computed statistics for S and wrote the
\* cache, a second call for the same S and period within the freshness
\* window returns identical statistics and does not invoke the provider.
C2_Original ==
    [][RepeatStep =>
        /\ ~last'.call.provider
        /\ last'.call.results = last.call.results]_vars

\* C2 as amended: the same, provided the first call returned non-null
\* statistics for every symbol of S.
C2_RoundTrip ==
    [][(RepeatStep /\ \A s \in DOMAIN last.call.results : NonNull(last.call.results[s])) =>
        /\ ~last'.call.provider
        /\ ~last'.call.raised
        /\ last'.call.results = last.call.results]_vars

\* a repeat that was answered from the file an earlier call wrote
C2_Witness ==
    /\ last.op = "get" /\ ~last.call.provider
    /\ last.call.at = cache[KeyOf(last.call)].mtime + TickStep
    /\ last.call.symbols = <<"B", "A">>
    /\ IsNum(last.call.results["A"].volatility)
    /\ last.call.results["B"].volatility = NaN

\* the call is for two symbols a, b of which the cache file, fresh and
\* readable, holds a and not b
PartialStep(a, b) ==
    /\ GetStep
    /\ Range(last'.call.symbols) = {a, b} /\ a # b
    /\ cache[KeyOf(last'.call)].kind = "json"
    /\ now - cache[KeyOf(last'.call)].mtime < TTL
    /\ a \in DOMAIN cache[KeyOf(last'.call)].data
    /\ b \notin DOMAIN cache[KeyOf(last'.call)].data

\* C3 as stated: when the cache is fresh and contains A but not B, a request
\* for {A,B} re-fetches both A and B from the provider, and after the call
\* the cache file contains entries for both A and B.
C3_Original ==
    [][\A a, b \in Symbols : PartialStep(a, b) =>
        /\ last'.call.provider /\ last'.call.calls = last'.call.symbols
        /\ cache'[KeyOf(last'.call)].kind = "json"
        /\ {a, b} \subseteq DOMAIN cache'[KeyOf(last'.call)].data]_vars

\* C3 as amended: when the cache is fresh and contains A but not B, a
\* request for {A,B} asks the provider for both A and B; after the call the
\* cache file contains entries for both A and B provided statistics were
\* computed for B and the cache file was written.
C3_PartialCoverage ==
    [][\A a, b \in Symbols : PartialStep(a, b) =>
        /\ last'.call.provider /\ last'.call.calls = last'.call.symbols
        /\ (last'.call.wrote = "ok" /\ last'.call.results[b].volatility # Null) =>
              /\ cache'[KeyOf(last'.call)].kind = "json"
              /\ {a, b} \subseteq DOMAIN cache'[KeyOf(last'.call)].data
              /\ cache'[KeyOf(last'.call)].data[b] = last'.call.results[b]]_vars

\* a re-fetch of <<A, B>> in which A failed: A's entry in the file can only
\* be the one the fresh file held before, B's is new
C3_Witness ==
    /\ last.op = "get" /\ last.call.provider /\ last.call.wrote = "ok"
    /\ last.call.symbols = <<"A", "B">>
    /\ last.call.results["A"] = NullStats
    /\ last.call.results["B"] # NullStats
    /\ cache[KeyOf(last.call)].mtime = last.call.at
    /\ DOMAIN cache[KeyOf(last.call)].data = {"A", "B"}

\* the cache file the call finds cannot be parsed
CorruptRead(c) == cache[KeyOf(c)].kind = "corrupt"

\* the call's write of the cache file fails
WriteFailed(c) == c.wrote \in {"openfail", "truncated"}

\* C4: a corrupt or unreadable cache file on read is treated as a cache
\* miss and a failed cache write is skipped: in both cases the call still
\* fetches, computes and returns the results, and no exception reaches the
\* caller.
C4_CacheErrorsTolerated ==
    [][(GetStep /\ (CorruptRead(last'.call) \/ WriteFailed(last'.call))) =>
        /\ last'.call.provider
        /\ ~last'.call.raised
        /\ ~last'.call.nothing => DOMAIN last'.call.results = Range(last'.call.symbols)]_vars

\* the part of C4 the code keeps: a failed write, and a corrupt file that is
\* no longer fresh, never make the call raise
C4_ExceptFreshCorrupt ==
    [][(GetStep /\ (WriteFailed(last'.call) \/
                    (CorruptRead(last'.call) /\ now - cache[KeyOf(last'.call)].mtime >= TTL))) =>
        /\ last'.call.provider
        /\ ~last'.call.raised
        /\ ~last'.call.nothing => DOMAIN last'.call.results = Range(last'.call.symbols)]_vars

\* the call is made by the per-symbol provider for two symbols, the request
\* for ok succeeds and the request for the other symbol fails
PartialFailure(c, ok) ==
    /\ c.prov = "nasdaq" /\ c.provider
    /\ Len(c.symbols) = 2 /\ ok \in Range(c.symbols)
    /\ c.fetched = {ok}

\* C5: in a request for {A,B} where the provider call for B fails and the
\* one for A succeeds, the provider is still called for A regardless of
\* order, the result has A with both fields non-null and B with both null,
\* and the call does not raise.
C5_BatchPartialFailure ==
    [][\A a \in Symbols : (GetStep /\ PartialFailure(last'.call, a)) =>
        /\ last'.call.calls = last'.call.symbols
        /\ ~last'.call.raised
        /\ DOMAIN last'.call.results = Range(last'.call.symbols)
        /\ \A s \in DOMAIN last'.call.results :
              IF s = a
              THEN last'.call.results[s].volatility # Null
                   /\ last'.call.results[s].expectedReturn # Null
              ELSE last'.call.results[s].volatility = Null
                   /\ last'.call.results[s].expectedReturn = Null]_vars

\* C5 holds of every call that does not find a fresh unparsable cache file
C5_ExceptFreshCorrupt ==
    [][\A a \in Symbols :
        (GetStep /\ PartialFailure(last'.call, a)
         /\ ~(CorruptRead(last'.call) /\ now - cache[KeyOf(last'.call)].mtime < TTL)) =>
        /\ last'.call.calls = last'.call.symbols
        /\ ~last'.call.raised
        /\ DOMAIN last'.call.results = Range(last'.call.symbols)
        /\ \A s \in DOMAIN last'.call.results :
              (s = a) <=> last'.call.results[s].volatility # Null]_vars

\* the requested symbols whose fetch failed
Failed(c) == Range(c.symbols) \ c.fetched

\* C6 as stated: for every call that reaches the provider, every requested
\* symbol whose fetch failed is in the returned mapping with volatility and
\* expectedReturn both null, however many symbols failed.
C6_Original ==
    [][(GetStep /\ last'.call.provider /\ ~last'.call.raised) =>
        \A s \in Failed(last'.call) :
            /\ s \in DOMAIN last'.call.results
            /\ last'.call.results[s].volatility = Null
            /\ last'.call.results[s].expectedReturn = Null]_vars

\* C6 as amended: in the mapping returned by a call that reached the
\* provider, every requested symbol whose fetch failed has volatility and
\* expectedReturn both null, provided the provider returned data for the
\* batch; when it returned nothing for the whole batch (every symbol failed
\* at the per-symbol provider, the download raised at the single-request
\* provider) the returned mapping is empty.
C6_ProviderErrorDegrades ==
    [][(GetStep /\ last'.call.provider /\ ~last'.call.raised) =>
        IF last'.call.nothing
        THEN DOMAIN last'.call.results = {}
        ELSE \A s \in Failed(last'.call) :
                /\ s \in DOMAIN last'.call.results
                /\ last'.call.results[s].volatility = Null
                /\ last'.call.results[s].expectedReturn = Null]_vars

\* a batch in which one symbol failed and one did not, and a batch in
\* which everything failed
C6_Witness ==
    /\ last.op = "get" /\ last.call.provider /\ ~last.call.raised
    /\ last.call.symbols = <<"B", "A">>
    /\ last.call.fetched = {"B"}
    /\ last.call.results["A"] = NullStats
    /\ last.call.results["B"] # NullStats

\* volatility and expectedReturn are null together
BothOrNeither(st) == (st.volatility = Null) <=> (st.expectedReturn = Null)

\* C7: in every Symbol Statistics value returned by
\* get_stock_volatility_and_returns, stored in a cache file or written to
\* the settings document, volatility and expectedReturn are both present or
\* both null.
C7_NullTogether ==
    /\ \A s \in DOMAIN last.call.results : BothOrNeither(last.call.results[s])
    /\ \A k \in DOMAIN cache : \A s \in DOMAIN cache[k].data : BothOrNeither(cache[k].data[s])
    /\ \A s \in DOMAIN settings.doc.stocks : BothOrNeither(settings.doc.stocks[s])

\* a call returned a null pair next to a pair whose volatility is NaN, and
\* the non-null pair reached the cache file
C7_Witness ==
    /\ last.call.called /\ ~last.call.raised /\ last.call.wrote = "ok"
    /\ \E a, b \in DOMAIN last.call.results :
          /\ last.call.results[a] = NullStats
          /\ last.call.results[b].volatility = NaN
          /\ last.call.results[b].expectedReturn # Null
          /\ cache[KeyOf(last.call)].data[b] = last.call.results[b]

\* a step that is one run of add_stock
AddStep == now' = now /\ last'.op = "add"

\* the upper-case form of the symbols add_stock is run on
Canonical(raw) == IF raw \in {"a", "A"} THEN "A" ELSE "B"

\* C8: add_stock(symbol) for a symbol that, uppercased, is already in the
\* settings document returns False, leaves the settings document unmodified,
\* and neither calls the provider nor writes the settings file.
C8_AddStockRejectsKnown ==
    [][(AddStep /\ settings.kind = "json"
        /\ Canonical(last'.arg) \in DOMAIN settings.doc.stocks) =>
        /\ last'.ret = "False"
        /\ settings' = settings
        /\ ~last'.call.called /\ ~last'.call.provider
        /\ last'.swrote = "none"
        /\ cache' = cache]_vars

\* add_stock("a") was rejected because "A" is in the document
C8_Witness ==
    /\ last.op = "add" /\ last.arg = "a" /\ last.ret = "False"
    /\ ~last.call.called
    /\ settings.kind = "json" /\ "A" \in DOMAIN settings.doc.stocks

\* C9: if the statistics returned for the symbol are absent from the result
\* or have a null volatility or expectedReturn, add_stock returns False and
\* does not write the settings file, so the document on disk is unchanged.
C9_AddStockFailsOnNull ==
    [][(AddStep /\ last'.call.called /\ ~last'.call.raised
        /\ \A s \in DOMAIN last'.call.results :
              \/ last'.call.results[s].volatility = Null
              \/ last'.call.results[s].expectedReturn = Null) =>
        /\ last'.ret = "False"
        /\ last'.swrote = "none"
        /\ settings' = settings]_vars

\* add_stock("B") got a null pair back and failed; B is not in the document
C9_Witness ==
    /\ last.op = "add" /\ last.arg = "B" /\ last.ret = "False"
    /\ last.call.called /\ last.call.provider
    /\ "B" \in DOMAIN last.call.results
    /\ last.call.results["B"] = NullStats
    /\ settings.kind = "json" /\ "B" \notin DOMAIN settings.doc.stocks

\* a step that is one run of update_stock_settings
UpdateStep == now' = now /\ last'.op = "update"

\* the freshly obtained values of s are both non-null
Fresh(c, s) ==
    /\ s \in DOMAIN c.results
    /\ c.results[s].volatility # Null
    /\ c.results[s].expectedReturn # Null

\* C10: the document update_stock_settings writes back has the same symbols
\* as the one it loaded; a symbol whose freshly obtained values are both
\* non-null has volatility and expectedReturn overwritten and every other
\* field kept; every other symbol's entry and every other field of the
\* document is unchanged.
C10_BulkRefreshFrame ==
    [][(UpdateStep /\ last'.swrote = "ok") =>
        /\ settings'.kind = "json"
        /\ settings'.doc.app = settings.doc.app
        /\ DOMAIN settings'.doc = DOMAIN settings.doc
        /\ DOMAIN settings'.doc.stocks = DOMAIN settings.doc.stocks
        /\ \A s \in DOMAIN settings.doc.stocks :
              IF Fresh(last'.call, s)
              THEN /\ settings'.doc.stocks[s].volatility = last'.call.results[s].volatility
                   /\ settings'.doc.stocks[s].expectedReturn = last'.call.results[s].expectedReturn
                   /\ DOMAIN settings'.doc.stocks[s] = DOMAIN settings.doc.stocks[s]
                   /\ settings'.doc.stocks[s].note = settings.doc.stocks[s].note
              ELSE settings'.doc.stocks[s] = settings.doc.stocks[s]]_vars

\* a refresh overwrote B, kept its other field, and left A, whose fetch
\* failed, as it was
C10_Witness ==
    /\ last.op = "update" /\ last.ret = "True"
    /\ settings.kind = "json"
    /\ DOMAIN last.call.results = {"A", "B"}
    /\ last.call.results["A"] = NullStats
    /\ last.call.results["B"] # NullStats
    /\ settings.doc.stocks["A"] = InitEntry
    /\ settings.doc.stocks["B"].volatility = last.call.results["B"].volatility
    /\ settings.doc.stocks["B"].volatility # InitEntry.volatility
    /\ settings.doc.stocks["B"].note = "keep"

\* the step is a run of update_stock_settings that follows a run which wrote
\* the settings document, less than 24 hours after it
RepeatUpdate ==
    /\ UpdateStep
    /\ last.op = "update" /\ last.swrote = "ok"
    /\ now - last.call.at < TTL

\* the earlier run obtained non-null statistics for every symbol of the
\* document, and the cache file that holds them (written by that run, or the
\* one it was answered from) is still less than 24 hours old
FirstRunCached ==
    /\ DOMAIN last.call.results = DOMAIN settings.doc.stocks
    /\ \A s \in DOMAIN last.call.results : NonNull(last.call.results[s])
    /\ last.call.wrote = "ok" \/ ~last.call.provider
    /\ now - cache[KeyOf(last.call)].mtime < TTL

\* C11 as stated: running update_stock_settings twice in immediate
\* succession, the second run within the freshness window of the first, the
\* second run writes a settings document identical to the one the first run
\* wrote, whatever the provider would return on a re-fetch.
C11_Original ==
    [][(RepeatUpdate /\ last'.swrote = "ok") => settings' = settings]_vars

\* C11 as amended: the same, provided the first run obtained non-null
\* statistics for every symbol of the document and the cache file holding
\* them is still fresh at the second run; the second run is then answered
\* from the cache without asking the provider.
C11_Idempotent ==
    [][(RepeatUpdate /\ FirstRunCached) =>
        /\ ~last'.call.provider /\ ~last'.call.raised
        /\ last'.call.results = last.call.results
        /\ last'.swrote = "ok" => settings' = settings]_vars

\* a second run, answered from the cache file the first run wrote half a day
\* earlier, wrote the document again with the first run's values
C11_Witness ==
    /\ last.op = "update" /\ last.ret = "True" /\ ~last.call.provider
    /\ last.call.at = cache[KeyOf(last.call)].mtime + TickStep
    /\ settings.kind = "json"
    /\ DOMAIN last.call.results = {"A", "B"}
    /\ \A s \in {"A", "B"} :
          /\ settings.doc.stocks[s].volatility = last.call.results[s].volatility
          /\ settings.doc.stocks[s].volatility # InitEntry.volatility

\* a step that is one run of add_stock or update_stock_settings in which
\* the write of the settings file failed
SettingsWriteFailed ==
    /\ AddStep \/ UpdateStep
    /\ last'.swrote \in {"openfail", "truncated"}

\* C12: an I/O failure while writing the settings file, in add_stock or in
\* update_stock_settings, makes the operation return failure and leaves the
\* settings file holding the complete document it held before the operation.
C12_SettingsWriteSafe ==
    [][SettingsWriteFailed =>
        /\ last'.ret = "False"
        /\ settings' = settings]_vars

\* the part of C12 the code keeps: the failure is reported, and when the
\* file could not even be opened for writing it is left as it was
C12_FailureReported ==
    [][SettingsWriteFailed =>
        /\ last'.ret = "False"
        /\ last'.swrote = "openfail" => settings' = settings]_vars

\* a step that is a call which asked the provider and returned
ComputeStep == GetStep /\ last'.call.provider /\ ~last'.call.raised

\* two rows, both of the same calendar day
SameDayPair(t) == Len(t) = 2 /\ t[1].date = t[2].date

\* C13: for a 2-row price series whose first and last dates are the same
\* calendar day, the expected return is 0.0 and nothing is raised, so the
\* symbol's expectedReturn in the result of
\* get_stock_volatility_and_returns is 0.0, for every provider module.
C13_SameDayReturnZero ==
    [][ComputeStep =>
        \A s \in DOMAIN last'.call.data :
            SameDayPair(last'.call.data[s]) =>
                /\ s \in DOMAIN last'.call.results
                /\ last'.call.results[s].expectedReturn = Num(0)]_vars

\* C13 holds of fetch_volatility_nasdaq.py, which has the days == 0 guard
C13_NasdaqSameDay ==
    [][(ComputeStep /\ last'.call.prov = "nasdaq") =>
        \A s \in DOMAIN last'.call.data :
            SameDayPair(last'.call.data[s]) =>
                /\ s \in DOMAIN last'.call.results
                /\ last'.call.results[s].expectedReturn = Num(0)]_vars

\* the call's write put nothing new in the cache file for s: the file has no
\* entry for s, or the entry the fresh file held before
NothingStored(c, s) ==
    \/ s \notin DOMAIN cache'[KeyOf(c)].data
    \/ /\ cache[KeyOf(c)].kind = "json" /\ now - cache[KeyOf(c)].mtime < TTL
       /\ s \in DOMAIN cache[KeyOf(c)].data
       /\ cache'[KeyOf(c)].data[s] = cache[KeyOf(c)].data[s]

\* C14: a symbol whose price series has fewer than 2 rows is reported by
\* get_stock_volatility_and_returns with volatility and expectedReturn both
\* null, nothing is stored for it in the cache, and the call does not raise.
C14_FewRowsFail ==
    [][ComputeStep =>
        \A s \in DOMAIN last'.call.data :
            Len(last'.call.data[s]) < 2 =>
                /\ s \in DOMAIN last'.call.results
                /\ last'.call.results[s] = NullStats
                /\ NothingStored(last'.call, s)]_vars

\* C14 holds of fetch_volatility.py, where the missing days == 0 guard makes
\* the one-row computation raise
C14_YfFewRows ==
    [][(ComputeStep /\ last'.call.prov = "yf") =>
        \A s \in DOMAIN last'.call.data :
            Len(last'.call.data[s]) < 2 =>
                /\ s \in DOMAIN last'.call.results
                /\ last'.call.results[s] = NullStats
                /\ NothingStored(last'.call, s)]_vars

\* at least `rows` rows, strictly increasing dates, positive prices
ValidSeries(t, rows) ==
    /\ Len(t) >= rows
    /\ \A i \in 1..(Len(t) - 1) : t[i].date < t[i + 1].date
    /\ \A i \in 1..Len(t) : t[i].close > 0

\* C15: for every price series of length >= 2 with strictly increasing
\* dates and positive prices, the volatility computed by
\* calculate_annualized_volatility is a defined, finite number >= 0.
C15_VolatilityFinite ==
    [][ComputeStep =>
        \A s \in DOMAIN last'.call.data :
            ValidSeries(last'.call.data[s], 2) =>
                /\ s \in DOMAIN last'.call.results
                /\ IsNum(last'.call.results[s].volatility)
                /\ last'.call.results[s].volatility[2] >= 0]_vars

\* C15 holds of the series of three rows and more, which have two returns
C15_ThreeRows ==
    [][ComputeStep =>
        \A s \in DOMAIN last'.call.data :
            ValidSeries(last'.call.data[s], 3) =>
                /\ s \in DOMAIN last'.call.results
                /\ IsNum(last'.call.results[s].volatility)
                /\ last'.call.results[s].volatility[2] >= 0]_vars

\* a step that is a call answered from the cache
HitStep == GetStep /\ ~last'.call.provider

\* C18: a cache entry is stale 24 hours after it was computed: over any
\* sequence of get_stock_volatility_and_returns calls, a value returned on a
\* cache hit for a symbol was computed from provider data less than 24
\* hours before that call.
C18_HitYoungerThanTTL ==
    [][HitStep =>
        \A s \in DOMAIN last'.call.results :
            now - born[KeyOf(last'.call)][s] < TTL]_vars

\* what the code keeps: the file a hit is answered from was last written
\* less than 24 hours before the call
C18_FileYoungerThanTTL ==
    [][HitStep => now - cache[KeyOf(last'.call)].mtime < TTL]_vars

\* a step that is a call which recomputed and rewrote the cache file
RewriteStep == GetStep /\ last'.call.provider /\ last'.call.wrote = "ok"

\* every entry of the file before the call for a symbol that is not
\* requested is in the file after it, unchanged
PriorKept(c) ==
    \A s \in DOMAIN cache[KeyOf(c)].data \ Range(c.symbols) :
        /\ s \in DOMAIN cache'[KeyOf(c)].data
        /\ cache'[KeyOf(c)].data[s] = cache[KeyOf(c)].data[s]

\* C17 as stated: whenever get_stock_volatility_and_returns recomputes and
\* rewrites the cache file, because the cache was absent, stale or missing a
\* requested symbol, every symbol that was in the prior cache file and is
\* not in the current request is still present afterwards with its prior
\* value.
C17_Original ==
    [][RewriteStep => PriorKept(last'.call)]_vars

\* C17 as amended: the rewritten file is the union of the prior contents
\* and the new results when the prior file was less than 24 hours old; when
\* the prior file was stale, its contents are discarded and the rewritten
\* file holds requested symbols only.
C17_MergeIntoFresh ==
    [][RewriteStep =>
        IF now - cache[KeyOf(last'.call)].mtime < TTL
        THEN PriorKept(last'.call)
        ELSE DOMAIN cache'[KeyOf(last'.call)].data \subseteq Range(last'.call.symbols)]_vars

\* a request for B alone rewrote, half a day later, a file that held A: A's
\* entry is still there, as old as it was
C17_Witness ==
    /\ last.op = "get" /\ last.call.provider /\ last.call.wrote = "ok"
    /\ last.call.symbols = <<"B">>
    /\ cache[KeyOf(last.call)].mtime = last.call.at
    /\ DOMAIN cache[KeyOf(last.call)].data = {"A", "B"}
    /\ born[KeyOf(last.call)]["A"] + TickStep = last.call.at

\* C20: a recompute writes to the cache only the symbols it computed in this
\* call, each with both values non-null; a requested symbol that failed is
\* not written as a null entry, and an entry the prior fresh cache held for
\* it is kept unchanged; so the cache entry of a requested symbol equals the
\* returned result exactly when that result is non-null.
C20_OnlySuccessesCached ==
    [][RewriteStep =>
        LET c == last'.call
            after == cache'[KeyOf(c)].data
        IN  /\ \A s \in DOMAIN after : NonNull(after[s])
            /\ \A s \in Range(c.symbols) :
                  /\ NonNull(c.results[s]) => (s \in DOMAIN after /\ after[s] = c.results[s])
                  /\ ~NonNull(c.results[s]) => NothingStored(c, s)
                  /\ (s \in DOMAIN after /\ after[s] = c.results[s]) <=> NonNull(c.results[s])]_vars

\* a recompute of <<B, A>> in which B failed: the file keeps the entry it
\* held for B, computed half a day before, and has the new one of A
C20_Witness ==
    /\ last.op = "get" /\ last.call.provider /\ last.call.wrote = "ok"
    /\ last.call.symbols = <<"B", "A">>
    /\ last.call.results["B"] = NullStats
    /\ NonNull(last.call.results["A"])
    /\ DOMAIN cache[KeyOf(last.call)].data = {"A", "B"}
    /\ cache[KeyOf(last.call)].data["A"] = last.call.results["A"]
    /\ born[KeyOf(last.call)]["B"] + TickStep = last.call.at
    /\ born[KeyOf(last.call)]["A"] = last.call.at

\* C19: a call of get_stock_volatility_and_returns of one provider module
\* with period p reads and writes only that provider's cache file for p: the
\* cache files of every other period and of the other provider are left
\* unchanged, and what a call returns from the cache is what the file of its
\* own provider and period holds.
C19_CacheScoped ==
    [][GetStep =>
        LET c == last'.call
        IN  /\ \A k \in DOMAIN cache \ {KeyOf(c)} : cache'[k] = cache[k]
            /\ ~c.provider =>
                  /\ Usable(c.symbols, cache[KeyOf(c)], now)
                  /\ \A s \in DOMAIN c.results : c.results[s] = cache[KeyOf(c)].data[s]
            /\ c.wrote = "ok" => cache'[KeyOf(c)].mtime = now]_vars

\* the two period files of the NASDAQ module hold different values for A,
\* and a call for period y1 was answered with the value of the y1 file
C19_Witness ==
    /\ last.op = "get" /\ ~last.call.provider
    /\ last.call.prov = "nasdaq" /\ last.call.period = "y1"
    /\ cache[<<"nasdaq", "y5">>].kind = "json" /\ cache[<<"nasdaq", "y1">>].kind = "json"
    /\ "A" \in DOMAIN cache[<<"nasdaq", "y5">>].data
    /\ "A" \in DOMAIN cache[<<"nasdaq", "y1">>].data
    /\ cache[<<"nasdaq", "y5">>].data["A"] # cache[<<"nasdaq", "y1">>].data["A"]
    /\ cache[<<"yf", "1y">>].kind = "json"
    /\ last.call.results["A"] = cache[<<"nasdaq", "y1">>].data["A"]

\* invocation p writes the settings file and returns success
SaveStep(p) ==
    /\ running[p].pc = "ready"
    /\ running'[p].pc = "done" /\ running'[p].ret = "True"

\* C16: two invocations of the settings read-modify-write running against
\* the same settings file take no lock and are last-writer-wins: the file
\* after a successful write is the writer's in-memory document, built from
\* the document it loaded, whatever the file held in between; a symbol that
\* the other invocation added, with success, after the writer loaded is not
\* in the file any more.
C16_LastWriterWins ==
    [][\A p \in Procs : SaveStep(p) =>
        /\ settings' = [kind |-> "json", doc |-> running[p].doc]
        /\ DOMAIN settings'.doc.stocks =
              DOMAIN running[p].base.stocks
              \cup (IF running[p].op = "add" THEN {running[p].symbol} ELSE {})
        /\ \A q \in Procs \ {p} :
              (/\ running[q].pc = "done" /\ running[q].ret = "True"
               /\ running[q].op = "add"
               /\ running[q].symbol \notin DOMAIN running[p].base.stocks
               /\ running[q].symbol # running[p].symbol)
              => running[q].symbol \notin DOMAIN settings'.doc.stocks]_vars

\* both invocations loaded before either wrote: add_stock("B") and
\* update_stock_settings both returned success, and B is not in the file
C16_Witness ==
    /\ running["p"].pc = "done" /\ running["p"].op = "add"
    /\ running["p"].symbol = "B" /\ running["p"].ret = "True"
    /\ running["q"].pc = "done" /\ running["q"].op = "update"
    /\ running["q"].ret = "True"
    /\ settings.kind = "json"
    /\ "B" \notin DOMAIN settings.doc.stocks

\* a step that is a call for which the provider returned nothing at all
EmptyBatchStep == GetStep /\ last'.call.provider /\ last'.call.fetched = {}
                  /\ last'.call.nothing

\* C21: when the provider returns nothing for the whole batch (None for the
\* single-request provider, an empty mapping for the per-symbol provider),
\* get_stock_volatility_and_returns returns an empty mapping and leaves the
\* cache file untouched: its contents and its last-modified time are
\* unchanged.
C21_EmptyBatchLeavesCache ==
    [][EmptyBatchStep =>
        /\ ~last'.call.raised
        /\ last'.call.results = EmptyMap
        /\ last'.call.wrote = "none"
        /\ cache' = cache
        /\ born' = born]_vars

\* half a day after A was cached, a request for B got nothing from the
\* provider: the file still holds A alone and is as old as it was
C21_Witness ==
    /\ last.op = "get" /\ last.call.provider /\ last.call.nothing
    /\ last.call.symbols = <<"B">> /\ last.call.results = EmptyMap
    /\ cache[KeyOf(last.call)].kind = "json"
    /\ DOMAIN cache[KeyOf(last.call)].data = {"A"}
    /\ cache[KeyOf(last.call)].mtime + TickStep = last.call.at

====
